---- MODULE Spec2Model ----
(***************************************************************************)
(* SingleLinkedList<Type> (single-linked-list.h): a sentinel-headed chain  *)
(* of heap nodes with a size counter.  Pointers are integers: 0 is         *)
(* nullptr, 1..MaxNodes are heap addresses, negative numbers are the       *)
(* addresses of the sentinels (head_) embedded in the list objects.        *)
(***************************************************************************)
EXTENDS Integers, Sequences, FiniteSets, TLC

MaxNodes == 4
MaxLen == 3

NULL == 0
NoVal == 0
(* an injection index later than any node construction: nothing throws *)
NoThrow == MaxNodes + 1
SizeMod == 2^30

Heap == 1..MaxNodes
(* Type: the list is instantiated with a two-valued element type *)
Values == {1, 2}
Lists == {"a", "b"}
Temps == {"temp", "ctemp"}
ListObjs == Lists \cup Temps

VARIABLES
    next,         \* Node::next_node of every node and of every head_
    value,        \* Node::value of every heap node
    live,         \* the heap addresses handed out by new and not yet deleted
    size_,        \* SingleLinkedList::size_ of every list object
    constructed,  \* the list objects whose lifetime has begun and not ended
    op            \* the call the client made last, as the client saw it

vars == <<next, value, live, size_, constructed, op>>

(* address of the member head_ of each list object *)
head_ == [l \in ListObjs |->
            CASE l = "a" -> -1 [] l = "b" -> -2 [] l = "temp" -> -3 [] OTHER -> -4]

Sentinels == {head_[l] : l \in ListObjs}
Addrs == Heap \cup Sentinels

Min(x, y) == IF x <= y THEN x ELSE y

(* operator new: a first-fit allocator, the lowest free address is handed *)
(* out (a freed address is reused by a later new)                         *)
Lowest(S) == CHOOSE n \in S : \A m \in S : n <= m

RECURSIVE FirstFit(_, _)
FirstFit(free, k) ==
    IF k = 0 \/ free = {} THEN <<>>
    ELSE <<Lowest(free)>> \o FirstFit(free \ {Lowest(free)}, k - 1)

(* the memory as one value: the node fields, the allocated set, the counters *)
H == [next |-> next, value |-> value, live |-> live, size_ |-> size_]

Commit(h) ==
    /\ next' = h.next
    /\ value' = h.value
    /\ live' = h.live
    /\ size_' = h.size_

(* ------------------------------------------------------------------ *)
(* Observers of a memory: the chain of nodes behind a pointer.         *)
(* ------------------------------------------------------------------ *)
RECURSIVE Walk(_, _, _)
Walk(h, p, fuel) ==
    IF p = NULL \/ fuel = 0 THEN <<>>
    ELSE <<p>> \o Walk(h, h.next[p], fuel - 1)

(* an operator++ that stays on a node that has no successor *)
Incr_StayAtLast(h, p) == IF p # NULL /\ h.next[p] # NULL THEN h.next[p] ELSE p

(* BasicIterator::operator++ *)
Incr(h, p) == IF p # NULL THEN h.next[p] ELSE p

(* BasicIterator::operator++(int): the iterator moves on, the old position *)
(* is returned                                                             *)
PostIncr(h, p) == [it |-> Incr(h, p), ret |-> p]

RECURSIVE IncrN(_, _, _)
IncrN(h, p, n) == IF n = 0 THEN p ELSE IncrN(h, Incr(h, p), n - 1)

begin(h, l) == h.next[head_[l]]
end == NULL
(* a before_begin() that hands out a default-constructed iterator *)
before_begin_Default(l) == NULL
before_begin(l) == head_[l]
cbefore_begin(l) == head_[l]
cbegin(h, l) == h.next[head_[l]]
cend == NULL
GetSize(h, l) == h.size_[l]
IsEmpty(h, l) == h.size_[l] = 0

(* the nodes met by iterating from begin() to end(), cut after MaxNodes+1 *)
NodesOf(h, l) == Walk(h, begin(h, l), MaxNodes + 1)
NodeSet(h, l) == {NodesOf(h, l)[i] : i \in 1..Len(NodesOf(h, l))}
ValuesOf(h, l) == [i \in 1..Len(NodesOf(h, l)) |-> h.value[NodesOf(h, l)[i]]]
Acyclic(h, l) ==
    /\ Len(NodesOf(h, l)) <= MaxNodes
    /\ \A i, j \in 1..Len(NodesOf(h, l)) : i # j => NodesOf(h, l)[i] # NodesOf(h, l)[j]

(* positions an operation on l may legally be given *)
Positions(h, l) == {head_[l]} \cup NodeSet(h, l)

(* ------------------------------------------------------------------ *)
(* Memory primitives                                                   *)
(* ------------------------------------------------------------------ *)
(* new Node(val, nxt) placed at address n *)
NewNode(h, n, val, nxt) ==
    [h EXCEPT !.live = @ \cup {n}, !.value[n] = val, !.next[n] = nxt]

(* the expression new Node(val, nxt): operator new hands out n (NULL when *)
(* memory is exhausted: bad_alloc), then Node's constructor copies val;   *)
(* when that copy throws the language returns the block                   *)
NewExpr(h, n, val, nxt, throws) ==
    IF n = NULL THEN [h |-> h, thrown |-> TRUE]
    ELSE IF throws THEN [h |-> [h EXCEPT !.live = (@ \cup {n}) \ {n}], thrown |-> TRUE]
    ELSE [h |-> NewNode(h, n, val, nxt), thrown |-> FALSE]

(* delete node *)
DeleteNode(h, n) ==
    [h EXCEPT !.live = @ \ {n}, !.value[n] = NoVal, !.next[n] = NULL]

SetNext(h, p, q) == [h EXCEPT !.next[p] = q]
SetSize(h, l, s) == [h EXCEPT !.size_[l] = s % SizeMod]

(* what the caller of the last call saw: which call, on which objects,   *)
(* whether a node construction inside it failed, how it returned          *)
OpRec(name, l, other, pos, val, seq, failed, outcome, ret) ==
    [name |-> name, list |-> l, other |-> other, pos |-> pos, val |-> val,
     seq |-> seq, failed |-> failed, outcome |-> outcome, ret |-> ret]

(* a call that exits by exception: its arguments are not kept *)
Thrown(name, l, other) == OpRec(name, l, other, NULL, NoVal, <<>>, TRUE, "throw", NULL)

(* no call has been recorded yet: the recorded call is the last of a run *)
NoOp == OpRec("none", "a", "a", NULL, NoVal, <<>>, FALSE, "ok", NULL)
Running == op = NoOp

(* the caller's view of a call is recorded (and the run ends there) or not *)
Record(rec) == op' \in {NoOp, rec}

(* ------------------------------------------------------------------ *)
(* The member functions as functions of the memory                     *)
(* ------------------------------------------------------------------ *)
(* a PushFront that links the node and leaves size_ alone *)
PushFrontH_NoCount(h, l, n, val, throws) ==
    LET r == NewExpr(h, n, val, h.next[head_[l]], throws)
    IN  IF r.thrown THEN [h |-> r.h, thrown |-> TRUE, ret |-> NULL]
        ELSE [h |-> SetNext(r.h, head_[l], n), thrown |-> FALSE, ret |-> n]

(* a PushFront that counts the element before the node is constructed *)
PushFrontH_CountFirst(h, l, n, val, throws) ==
    LET r == NewExpr(SetSize(h, l, h.size_[l] + 1), n, val, h.next[head_[l]], throws)
    IN  IF r.thrown THEN [h |-> r.h, thrown |-> TRUE, ret |-> NULL]
        ELSE [h |-> SetNext(r.h, head_[l], n), thrown |-> FALSE, ret |-> n]

(* void PushFront(const Type& value) *)
PushFrontH(h, l, n, val, throws) ==
    LET r == NewExpr(h, n, val, h.next[head_[l]], throws)
    IN  IF r.thrown THEN [h |-> r.h, thrown |-> TRUE, ret |-> NULL]
        ELSE [h |-> SetSize(SetNext(r.h, head_[l], n), l, h.size_[l] + 1),
              thrown |-> FALSE, ret |-> n]

(* a PopFront that unlinks the first node and never deletes it *)
PopFrontBody_Leak(h, l) ==
    SetSize(SetNext(h, head_[l], h.next[h.next[head_[l]]]), l, h.size_[l] - 1)

(* the body of PopFront: unlink the first node, delete it, --size_ *)
PopFrontBody(h, l) ==
    LET erase_el == h.next[head_[l]]
    IN  SetSize(DeleteNode(SetNext(h, head_[l], h.next[erase_el]), erase_el), l, h.size_[l] - 1)

(* a PopFront that, when there is a second element, copies its value into *)
(* the first node and deletes the second node                             *)
PopFrontH_ByCopy(h, l) ==
    IF ~IsEmpty(h, l)
    THEN LET first == h.next[head_[l]]
             second == h.next[first]
         IN  IF second = NULL THEN PopFrontBody(h, l)
             ELSE SetSize(DeleteNode(SetNext([h EXCEPT !.value[first] = h.value[second]],
                                             first, h.next[second]), second),
                          l, h.size_[l] - 1)
    ELSE h

(* void PopFront() noexcept, single-linked-list.h *)
PopFrontH(h, l) == IF ~IsEmpty(h, l) THEN PopFrontBody(h, l) ELSE h

(* a loop body that deletes the node while head_ still points at it, and *)
(* links head_ to the successor it had saved                             *)
ClearIter_DeleteFirst(h, l) ==
    LET element == h.next[head_[l]]
    IN  <<DeleteNode(h, element), SetNext(DeleteNode(h, element), head_[l], h.next[element])>>

(* one pass through the body of the while loop of Clear(): the memory     *)
(* after head_.next_node = element->next_node, then after delete element  *)
ClearIter(h, l) ==
    LET element == h.next[head_[l]]
    IN  <<SetNext(h, head_[l], h.next[element]),
          DeleteNode(SetNext(h, head_[l], h.next[element]), element)>>

(* the while loop of Clear() *)
RECURSIVE ClearLoop(_, _, _)
ClearLoop(h, l, fuel) ==
    IF h.next[head_[l]] = NULL \/ fuel = 0 THEN h
    ELSE ClearLoop(ClearIter(h, l)[2], l, fuel - 1)

(* every memory the loop of Clear() goes through, statement by statement, *)
(* from its entry to its exit                                              *)
RECURSIVE ClearTrace(_, _, _)
ClearTrace(h, l, fuel) ==
    IF h.next[head_[l]] = NULL \/ fuel = 0 THEN <<h>>
    ELSE <<h, ClearIter(h, l)[1]>> \o ClearTrace(ClearIter(h, l)[2], l, fuel - 1)

(* void Clear() noexcept *)
ClearH(h, l) == SetSize(ClearLoop(h, l, MaxNodes + 1), l, 0)

(* swap that exchanges the chains and forgets the counters *)
SwapH_LinksOnly(h, l, o) ==
    [h EXCEPT !.next = [@ EXCEPT ![head_[l]] = h.next[head_[o]], ![head_[o]] = h.next[head_[l]]]]

(* a swap that hands the chain and size of the other list to this one and *)
(* leaves the other list as it was                                        *)
SwapH_OneWay(h, l, o) ==
    [h EXCEPT !.next = [@ EXCEPT ![head_[l]] = h.next[head_[o]]],
              !.size_ = [@ EXCEPT ![l] = h.size_[o]]]

(* void swap(SingleLinkedList& other) noexcept *)
SwapH(h, l, o) ==
    [h EXCEPT !.next = [@ EXCEPT ![head_[l]] = h.next[head_[o]], ![head_[o]] = h.next[head_[l]]],
              !.size_ = [@ EXCEPT ![l] = h.size_[o], ![o] = h.size_[l]]]

(* InsertAfter that takes the block, links it and counts it before the    *)
(* value is copied into it                                                *)
InsertAfterH_LinkFirst(h, l, pos, n, val, throws) ==
    IF n = NULL THEN [h |-> h, thrown |-> TRUE, ret |-> NULL]
    ELSE IF throws
         THEN [h |-> SetSize(SetNext(h, pos, n), l, h.size_[l] + 1), thrown |-> TRUE, ret |-> NULL]
    ELSE [h |-> SetSize(SetNext(NewNode(h, n, val, h.next[pos]), pos, n), l, h.size_[l] + 1),
          thrown |-> FALSE, ret |-> n]

(* InsertAfter whose new node does not take over the rest of the chain *)
InsertAfterH_DropTail(h, l, pos, n, val, throws) ==
    LET r == NewExpr(h, n, val, NULL, throws)
    IN  IF r.thrown THEN [h |-> r.h, thrown |-> TRUE, ret |-> NULL]
        ELSE [h |-> SetSize(SetNext(r.h, pos, n), l, h.size_[l] + 1),
              thrown |-> FALSE, ret |-> n]

(* Iterator InsertAfter(ConstIterator pos, const Type& value), after the assert *)
InsertAfterH(h, l, pos, n, val, throws) ==
    LET r == NewExpr(h, n, val, h.next[pos], throws)
    IN  IF r.thrown THEN [h |-> r.h, thrown |-> TRUE, ret |-> NULL]
        ELSE [h |-> SetSize(SetNext(r.h, pos, n), l, h.size_[l] + 1),
              thrown |-> FALSE, ret |-> n]

(* EraseAfter that deletes the node and leaves pos pointing at it *)
EraseAfterMem_NoUnlink(h, l, pos) ==
    IF pos # NULL /\ h.next[pos] # NULL
    THEN SetSize(SetNext(DeleteNode(h, h.next[pos]), pos, h.next[pos]), l, h.size_[l] - 1)
    ELSE h

(* an EraseAfter that, when the node after pos has a successor, copies    *)
(* the successor's value into it and deletes the successor instead        *)
EraseAfterMem_ByCopy(h, l, pos) ==
    IF pos # NULL /\ h.next[pos] # NULL
    THEN LET del_elem == h.next[pos]
             succ == h.next[del_elem]
         IN  IF succ = NULL
             THEN SetSize(DeleteNode(SetNext(h, pos, NULL), del_elem), l, h.size_[l] - 1)
             ELSE SetSize(DeleteNode(SetNext([h EXCEPT !.value[del_elem] = h.value[succ]],
                                             del_elem, h.next[succ]), succ),
                          l, h.size_[l] - 1)
    ELSE h

(* Iterator EraseAfter(ConstIterator pos) noexcept, pos.node_ not null *)
EraseAfterMem(h, l, pos) ==
    IF pos # NULL /\ h.next[pos] # NULL
    THEN LET del_elem == h.next[pos]
         IN  SetSize(DeleteNode(SetNext(h, pos, h.next[del_elem]), del_elem), l, h.size_[l] - 1)
    ELSE h

(* EraseAfter that returns the position it was given a successor of *)
EraseAfterH_StaleRet(h, l, pos) ==
    [h |-> EraseAfterMem(h, l, pos), ret |-> h.next[pos]]

EraseAfterH(h, l, pos) ==
    [h |-> EraseAfterMem(h, l, pos), ret |-> EraseAfterMem(h, l, pos).next[pos]]

(* the for loop shared by both constructors: as[i] is the address the i-th *)
(* new Node gets; the loop stops after Len(as) nodes (all of vs, or the    *)
(* ones built before a copy or an allocation throws)                       *)
RECURSIVE BuildLoop(_, _, _, _, _, _)
BuildLoop(h, l, tail, vs, as, i) ==
    IF i > Len(as) THEN h
    ELSE BuildLoop(SetSize(SetNext(NewNode(h, as[i], vs[i], NULL), tail, as[i]),
                           l, h.size_[l] + 1),
                   l, as[i], vs, as, i + 1)

RECURSIVE Reverse(_)
Reverse(sq) == IF sq = <<>> THEN <<>> ELSE Reverse(Tail(sq)) \o <<Head(sq)>>

(* a constructor that takes the values back to front *)
InitListH_Reversed(h, l, vs, as) ==
    IF Len(vs) # 0 THEN BuildLoop(h, l, head_[l], Reverse(vs), as, 1) ELSE h

(* SingleLinkedList(std::initializer_list<Type> values) *)
InitListH(h, l, vs, as) ==
    IF Len(vs) # 0 THEN BuildLoop(h, l, head_[l], vs, as, 1) ELSE h

(* the storage of an object whose constructor threw: head_ and size_ are  *)
(* gone with it, the nodes it had built stay allocated with no pointer    *)
(* to them left, so their fields can no longer be read                    *)
Abandon(h, l) ==
    [h EXCEPT !.next = [p \in Addrs |-> IF p = head_[l] \/ p \in NodeSet(h, l) THEN NULL ELSE @[p]],
              !.value = [n \in Heap |-> IF n \in NodeSet(h, l) THEN NoVal ELSE @[n]],
              !.size_[l] = 0]

(* a copy constructor that copies head_ and size_, not the nodes *)
CopyCtorH_Shallow(h, l, other, as) ==
    [h |-> SetSize(SetNext(h, head_[l], h.next[head_[other]]), l, h.size_[other]),
     thrown |-> FALSE]

(* a copy constructor whose local temp is not destroyed when a copy throws *)
CopyCtorH_LeakTemp(h, l, other, as) ==
    IF ~IsEmpty(h, other)
    THEN LET vs == ValuesOf(h, other)
             built == BuildLoop(h, "ctemp", head_["ctemp"], vs, as, 1)
         IN  IF Len(as) < Len(vs)
             THEN [h |-> built, thrown |-> TRUE]
             ELSE [h |-> ClearH(SwapH(built, l, "ctemp"), "ctemp"), thrown |-> FALSE]
    ELSE [h |-> h, thrown |-> FALSE]

(* SingleLinkedList(const SingleLinkedList& other), constructing object l; *)
(* its local temp is the object "ctemp", destroyed on both exits           *)
CopyCtorH(h, l, other, as) ==
    IF ~IsEmpty(h, other)
    THEN LET vs == ValuesOf(h, other)
             built == BuildLoop(h, "ctemp", head_["ctemp"], vs, as, 1)
         IN  IF Len(as) < Len(vs)
             THEN [h |-> ClearH(built, "ctemp"), thrown |-> TRUE]
             ELSE [h |-> ClearH(SwapH(built, l, "ctemp"), "ctemp"), thrown |-> FALSE]
    ELSE [h |-> h, thrown |-> FALSE]

(* an assignment that clears the target before it copies *)
CopyAssignH_ClearFirst(h, l, rhs, as) ==
    IF rhs # l
    THEN LET t == CopyCtorH(ClearH(h, l), "temp", rhs, as)
         IN  IF t.thrown THEN t
             ELSE [h |-> ClearH(SwapH(t.h, l, "temp"), "temp"), thrown |-> FALSE]
    ELSE [h |-> h, thrown |-> FALSE]

(* an assignment without the test for self-assignment *)
CopyAssignH_NoSelfCheck(h, l, rhs, as) ==
    LET t == CopyCtorH(h, "temp", rhs, as)
    IN  IF t.thrown THEN t
        ELSE [h |-> ClearH(SwapH(t.h, l, "temp"), "temp"), thrown |-> FALSE]

(* SingleLinkedList& operator=(const SingleLinkedList& rhs) *)
CopyAssignH(h, l, rhs, as) ==
    IF rhs # l
    THEN LET t == CopyCtorH(h, "temp", rhs, as)
         IN  IF t.thrown THEN t
             ELSE [h |-> ClearH(SwapH(t.h, l, "temp"), "temp"), thrown |-> FALSE]
    ELSE [h |-> h, thrown |-> FALSE]

(* how many nodes a loop over n values builds when the (inj+1)-th node    *)
(* construction throws (element copy or operator new)                     *)
Built(n, inj) == Min(n, Min(inj, Cardinality(Heap \ live)))
Injections(n) == {i \in 0..MaxNodes : i < n} \cup {NoThrow}
FreshNode == IF live = Heap THEN NULL ELSE Lowest(Heap \ live)

BoundedSeqs == UNION {[1..n -> Values] : n \in 0..MaxLen}

(* ------------------------------------------------------------------ *)
(* Actions: one per call a client can make                             *)
(* ------------------------------------------------------------------ *)
Init ==
    /\ next = [p \in Addrs |-> NULL]
    /\ value = [n \in Heap |-> NoVal]
    /\ live = {}
    /\ size_ = [l \in ListObjs |-> 0]
    /\ constructed = Lists
    /\ op = NoOp

(* SingleLinkedList() = default *)
DefaultCtor(l) ==
    /\ Running
    /\ l \notin constructed
    /\ constructed' = constructed \cup {l}
    /\ Record(OpRec("ctor", l, l, NULL, NoVal, <<>>, FALSE, "ok", NULL))
    /\ UNCHANGED <<next, value, live, size_>>

InitListCtor(l, vs, inj) ==
    /\ Running
    /\ l \notin constructed
    /\ inj \in Injections(Len(vs))
    /\ LET as == FirstFit(Heap \ live, Built(Len(vs), inj))
       IN  IF Len(as) < Len(vs)
           THEN (* exit by exception: the object never existed, no destructor runs *)
                /\ Commit(Abandon(InitListH(H, l, vs, as), l))
                /\ Record(Thrown("InitList", l, l))
                /\ UNCHANGED constructed
           ELSE /\ Commit(InitListH(H, l, vs, as))
                /\ Record(OpRec("InitList", l, l, NULL, NoVal, vs, FALSE, "ok", NULL))
                /\ constructed' = constructed \cup {l}

(* the record keeps in seq the addresses the call's new expressions got *)
CopyCtor(l, other, inj) ==
    /\ Running
    /\ l \notin constructed
    /\ other \in constructed
    /\ inj \in Injections(Len(NodesOf(H, other)))
    /\ LET n == IF IsEmpty(H, other) THEN 0 ELSE Len(NodesOf(H, other))
           as == FirstFit(Heap \ live, Built(n, inj))
           r == CopyCtorH(H, l, other, as)
       IN  /\ Commit(r.h)
           /\ Record(OpRec("CopyCtor", l, other, NULL, NoVal, as, Len(as) < n,
                          IF r.thrown THEN "throw" ELSE "ok", NULL))
           /\ constructed' = IF r.thrown THEN constructed ELSE constructed \cup {l}

CopyAssign(l, rhs, inj) ==
    /\ Running
    /\ l \in constructed
    /\ rhs \in constructed
    /\ inj \in Injections(IF rhs = l THEN 0 ELSE Len(NodesOf(H, rhs)))
    /\ LET n == IF rhs = l \/ IsEmpty(H, rhs) THEN 0 ELSE Len(NodesOf(H, rhs))
           as == FirstFit(Heap \ live, Built(n, inj))
           r == CopyAssignH(H, l, rhs, as)
       IN  /\ Commit(r.h)
           /\ Record(OpRec("CopyAssign", l, rhs, NULL, NoVal, <<>>, Len(as) < n,
                          IF r.thrown THEN "throw" ELSE "ok", NULL))
    /\ UNCHANGED constructed

(* ~SingleLinkedList() *)
Dtor(l) ==
    /\ Running
    /\ l \in constructed
    /\ Commit(ClearH(H, l))
    /\ constructed' = constructed \ {l}
    /\ Record(OpRec("dtor", l, l, NULL, NoVal, <<>>, FALSE, "ok", NULL))

swap(l, other) ==
    /\ Running
    /\ l \in constructed
    /\ other \in constructed
    /\ Commit(SwapH(H, l, other))
    /\ Record(OpRec("swap", l, other, NULL, NoVal, <<>>, FALSE, "ok", NULL))
    /\ UNCHANGED constructed

PushFront(l, val, throws) ==
    /\ Running
    /\ l \in constructed
    /\ LET r == PushFrontH(H, l, FreshNode, val, throws)
       IN  /\ Commit(r.h)
           /\ Record(IF r.thrown
                    THEN OpRec("PushFront", l, l, NULL, NoVal, <<>>, throws \/ FreshNode = NULL, "throw", NULL)
                    ELSE OpRec("PushFront", l, l, head_[l], val, <<>>, throws \/ FreshNode = NULL, "ok", r.ret))
    /\ UNCHANGED constructed

PopFront(l) ==
    /\ Running
    /\ l \in constructed
    /\ Commit(PopFrontH(H, l))
    /\ Record(OpRec("PopFront", l, l, head_[l], NoVal, <<>>, FALSE, "ok", NULL))
    /\ UNCHANGED constructed

(* the record keeps in seq the nodes the list owned when Clear was called *)
Clear(l) ==
    /\ Running
    /\ l \in constructed
    /\ Commit(ClearH(H, l))
    /\ Record(OpRec("Clear", l, l, NULL, NoVal, NodesOf(H, l), FALSE, "ok", NULL))
    /\ UNCHANGED constructed

InsertAfter(l, pos, val, throws) ==
    /\ Running
    /\ l \in constructed
    /\ pos # NULL
    /\ LET r == InsertAfterH(H, l, pos, FreshNode, val, throws)
       IN  /\ Commit(r.h)
           /\ Record(IF r.thrown
                    THEN OpRec("InsertAfter", l, l, NULL, NoVal, <<>>, throws \/ FreshNode = NULL, "throw", NULL)
                    ELSE OpRec("InsertAfter", l, l, pos, val, <<>>, throws \/ FreshNode = NULL, "ok", r.ret))
    /\ UNCHANGED constructed

EraseAfter(l, pos) ==
    /\ Running
    /\ l \in constructed
    /\ pos # NULL
    /\ Commit(EraseAfterH(H, l, pos).h)
    /\ Record(OpRec("EraseAfter", l, l, pos, NoVal, <<>>, FALSE, "ok", EraseAfterH(H, l, pos).ret))
    /\ UNCHANGED constructed

(* *it = val through BasicIterator::operator*, it at the live node n of l *)
WriteElem(l, n, val) ==
    /\ Running
    /\ l \in constructed
    /\ n \in NodeSet(H, l)
    /\ value' = [value EXCEPT ![n] = val]
    /\ Record(OpRec("Write", l, l, n, val, <<>>, FALSE, "ok", n))
    /\ UNCHANGED <<next, live, size_, constructed>>

(* void PopFront() noexcept as main.cpp defines it: no emptiness test.  On *)
(* an empty list erase_el is null and erase_el->next_node is undefined:    *)
(* the process faults, or the read yields some pointer g, delete nullptr   *)
(* does nothing and --size_ wraps                                          *)
PopFrontMain(l) ==
    /\ Running
    /\ l \in constructed
    /\ IF next[head_[l]] # NULL
       THEN /\ Commit(PopFrontBody(H, l))
            /\ Record(OpRec("PopFront", l, l, head_[l], NoVal, <<>>, FALSE, "ok", NULL))
       ELSE \/ /\ op' = OpRec("PopFront", l, l, head_[l], NoVal, <<>>, FALSE, "segv", NULL)
               /\ UNCHANGED <<next, value, live, size_>>
            \/ \E g \in Addrs \cup {NULL} :
               /\ Commit(SetSize(SetNext(H, head_[l], g), l, size_[l] - 1))
               /\ op' = OpRec("PopFront", l, l, head_[l], NoVal, <<>>, FALSE, "ub", NULL)
    /\ UNCHANGED constructed

(* std::equal(lhs.begin(), lhs.end(), rhs.begin()): every way the loop can *)
(* end from the iterator pair (p, q).  Reading *q at q = end() fails the   *)
(* assert of operator* (abort); built with NDEBUG it is a null read: a     *)
(* fault, or some value that differs from *p or equals it                  *)
RECURSIVE EqualOutcomes(_, _, _, _)
EqualOutcomes(h, p, q, fuel) ==
    IF p = NULL \/ fuel = 0 THEN {"true"}
    ELSE IF q = NULL
         THEN {"abort", "segv", "false"} \cup EqualOutcomes(h, Incr(h, p), Incr(h, q), fuel - 1)
    ELSE IF h.value[p] # h.value[q] THEN {"false"}
    ELSE EqualOutcomes(h, Incr(h, p), Incr(h, q), fuel - 1)

(* bool operator==(const SingleLinkedList&, const SingleLinkedList&) *)
OpEqual(lhs, rhs) ==
    /\ Running
    /\ lhs \in constructed
    /\ rhs \in constructed
    /\ \E out \in EqualOutcomes(H, begin(H, lhs), begin(H, rhs), MaxNodes + 1) :
         op' = OpRec("==", lhs, rhs, NULL, NoVal, <<>>, FALSE, out, NULL)
    /\ UNCHANGED <<next, value, live, size_, constructed>>

BoolOutcome(b) == IF b THEN "true" ELSE "false"

(* the result of !e for an evaluation of e that returned; the other ways  *)
(* an evaluation can end are passed on                                    *)
Negated(out) == IF out = "true" THEN "false" ELSE IF out = "false" THEN "true" ELSE out

(* bool operator!=(const SingleLinkedList&, const SingleLinkedList&):     *)
(* !(lhs == rhs)                                                          *)
OpNotEqual(lhs, rhs) ==
    /\ Running
    /\ lhs \in constructed
    /\ rhs \in constructed
    /\ \E out \in EqualOutcomes(H, begin(H, lhs), begin(H, rhs), MaxNodes + 1) :
         op' = OpRec("!=", lhs, rhs, NULL, NoVal, <<>>, FALSE, Negated(out), NULL)
    /\ UNCHANGED <<next, value, live, size_, constructed>>

(* a comparison under which a list that is a prefix of, or equal to, the  *)
(* other one counts as less                                               *)
RECURSIVE LexCompare_EqualIsLess(_, _, _, _)
LexCompare_EqualIsLess(h, p, q, fuel) ==
    IF p = NULL \/ q = NULL \/ fuel = 0 THEN p = NULL
    ELSE IF h.value[p] < h.value[q] THEN TRUE
    ELSE IF h.value[q] < h.value[p] THEN FALSE
    ELSE LexCompare_EqualIsLess(h, Incr(h, p), Incr(h, q), fuel - 1)

(* std::lexicographical_compare(lhs.begin(), lhs.end(), rhs.begin(),      *)
(* rhs.end()) from the iterator pair (p, q)                               *)
RECURSIVE LexCompare(_, _, _, _)
LexCompare(h, p, q, fuel) ==
    IF p = NULL \/ q = NULL \/ fuel = 0 THEN p = NULL /\ q # NULL
    ELSE IF h.value[p] < h.value[q] THEN TRUE
    ELSE IF h.value[q] < h.value[p] THEN FALSE
    ELSE LexCompare(h, Incr(h, p), Incr(h, q), fuel - 1)

(* lhs < rhs as a function of the memory *)
LessH(h, lhs, rhs) == LexCompare(h, begin(h, lhs), begin(h, rhs), MaxNodes + 1)

(* bool operator<(const SingleLinkedList&, const SingleLinkedList&) *)
OpLess(lhs, rhs) ==
    /\ Running
    /\ lhs \in constructed
    /\ rhs \in constructed
    /\ op' = OpRec("<", lhs, rhs, NULL, NoVal, <<>>, FALSE, BoolOutcome(LessH(H, lhs, rhs)), NULL)
    /\ UNCHANGED <<next, value, live, size_, constructed>>

(* operator<=: !(rhs < lhs) *)
OpLessEq(lhs, rhs) ==
    /\ Running
    /\ lhs \in constructed
    /\ rhs \in constructed
    /\ op' = OpRec("<=", lhs, rhs, NULL, NoVal, <<>>, FALSE, BoolOutcome(~LessH(H, rhs, lhs)), NULL)
    /\ UNCHANGED <<next, value, live, size_, constructed>>

(* operator>: rhs < lhs *)
OpGreater(lhs, rhs) ==
    /\ Running
    /\ lhs \in constructed
    /\ rhs \in constructed
    /\ op' = OpRec(">", lhs, rhs, NULL, NoVal, <<>>, FALSE, BoolOutcome(LessH(H, rhs, lhs)), NULL)
    /\ UNCHANGED <<next, value, live, size_, constructed>>

(* operator>=: !(rhs > lhs), and rhs > lhs is lhs < rhs *)
OpGreaterEq(lhs, rhs) ==
    /\ Running
    /\ lhs \in constructed
    /\ rhs \in constructed
    /\ op' = OpRec(">=", lhs, rhs, NULL, NoVal, <<>>, FALSE, BoolOutcome(~LessH(H, lhs, rhs)), NULL)
    /\ UNCHANGED <<next, value, live, size_, constructed>>

Next ==
    \/ \E l \in Lists : DefaultCtor(l)
    \/ \E l \in Lists, vs \in BoundedSeqs, inj \in Injections(MaxLen) : InitListCtor(l, vs, inj)
    \/ \E l \in Lists, o \in Lists, inj \in Injections(MaxNodes) : CopyCtor(l, o, inj)
    \/ \E l \in Lists, o \in Lists, inj \in Injections(MaxNodes) : CopyAssign(l, o, inj)
    \/ \E l \in Lists : Dtor(l)
    \/ \E l \in Lists, o \in Lists : swap(l, o)
    \/ \E l \in Lists, v \in Values, t \in BOOLEAN : PushFront(l, v, t)
    \/ \E l \in Lists : PopFront(l)
    \/ \E l \in Lists : Clear(l)
    \/ \E l \in Lists, v \in Values, t \in BOOLEAN : \E pos \in Positions(H, l) : InsertAfter(l, pos, v, t)
    \/ \E l \in Lists : \E pos \in Positions(H, l) : EraseAfter(l, pos)
    \/ \E l \in Lists, v \in Values : \E n \in NodeSet(H, l) : WriteElem(l, n, v)

(* the list of single-linked-list.h under any sequence of calls *)
Spec == Init /\ [][Next]_vars

(* a.InsertAfter(pos, val) with pos the sentinel or a node of another list *)
(* m (an iterator that went over to m with a.swap(m), say): the node is   *)
(* linked behind pos, in m's chain, and a's size_ is incremented.  The    *)
(* run is followed up to the first such call                              *)
InsertAfterForeign(l, m, pos, val, throws) ==
    /\ Running
    /\ l \in constructed /\ m \in constructed /\ m # l
    /\ pos \in Positions(H, m)
    /\ LET r == InsertAfterH(H, l, pos, FreshNode, val, throws)
       IN  /\ Commit(r.h)
           /\ op' = IF r.thrown
                    THEN OpRec("InsertAfter", l, m, NULL, NoVal, <<>>, TRUE, "throw", NULL)
                    ELSE OpRec("InsertAfter", l, m, pos, val, <<>>, FALSE, "ok", r.ret)
    /\ UNCHANGED constructed

(* a.EraseAfter(pos) with pos the sentinel or a node of another list m *)
EraseAfterForeign(l, m, pos) ==
    /\ Running
    /\ l \in constructed /\ m \in constructed /\ m # l
    /\ pos \in Positions(H, m)
    /\ Commit(EraseAfterH(H, l, pos).h)
    /\ op' = OpRec("EraseAfter", l, m, pos, NoVal, <<>>, FALSE, "ok", EraseAfterH(H, l, pos).ret)
    /\ UNCHANGED constructed

(* the client of Spec, which may also pass positions of the other list *)
NextForeign ==
    \/ Next
    \/ \E l \in Lists, m \in Lists, v \in Values, t \in BOOLEAN :
         \E pos \in Positions(H, m) : InsertAfterForeign(l, m, pos, v, t)
    \/ \E l \in Lists, m \in Lists :
         \E pos \in Positions(H, m) : EraseAfterForeign(l, m, pos)

SpecForeign == Init /\ [][NextForeign]_vars

(* the same client run against the class as main.cpp defines it *)
NextMain ==
    \/ \E l \in Lists : DefaultCtor(l)
    \/ \E l \in Lists, vs \in BoundedSeqs, inj \in Injections(MaxLen) : InitListCtor(l, vs, inj)
    \/ \E l \in Lists, o \in Lists, inj \in Injections(MaxNodes) : CopyCtor(l, o, inj)
    \/ \E l \in Lists, o \in Lists, inj \in Injections(MaxNodes) : CopyAssign(l, o, inj)
    \/ \E l \in Lists : Dtor(l)
    \/ \E l \in Lists, o \in Lists : swap(l, o)
    \/ \E l \in Lists, v \in Values, t \in BOOLEAN : PushFront(l, v, t)
    \/ \E l \in Lists : PopFrontMain(l)
    \/ \E l \in Lists : Clear(l)
    \/ \E l \in Lists, v \in Values, t \in BOOLEAN : \E pos \in Positions(H, l) : InsertAfter(l, pos, v, t)
    \/ \E l \in Lists : \E pos \in Positions(H, l) : EraseAfter(l, pos)
    \/ \E l \in Lists, v \in Values : \E n \in NodeSet(H, l) : WriteElem(l, n, v)

SpecMain == Init /\ [][NextMain]_vars

(* the comparison operators applied to two lists built from bounded       *)
(* initializer lists                                                      *)
EmptyMem ==
    [next |-> [p \in Addrs |-> NULL], value |-> [n \in Heap |-> NoVal],
     live |-> {}, size_ |-> [l \in ListObjs |-> 0]]

TwoLists(sa, sb) ==
    LET ha == InitListH(EmptyMem, "a", sa, FirstFit(Heap, Len(sa)))
    IN  InitListH(ha, "b", sb, FirstFit(Heap \ ha.live, Len(sb)))

InitCmp ==
    /\ \E sa \in BoundedSeqs, sb \in BoundedSeqs :
         /\ Len(sa) + Len(sb) <= MaxNodes
         /\ next = TwoLists(sa, sb).next
         /\ value = TwoLists(sa, sb).value
         /\ live = TwoLists(sa, sb).live
         /\ size_ = TwoLists(sa, sb).size_
    /\ constructed = Lists
    /\ op = NoOp

NextCmp ==
    \/ \E l \in Lists, r \in Lists : OpEqual(l, r)
    \/ \E l \in Lists, r \in Lists : OpNotEqual(l, r)
    \/ \E l \in Lists, r \in Lists : OpLess(l, r)
    \/ \E l \in Lists, r \in Lists : OpLessEq(l, r)
    \/ \E l \in Lists, r \in Lists : OpGreater(l, r)
    \/ \E l \in Lists, r \in Lists : OpGreaterEq(l, r)

SpecCmp == InitCmp /\ [][NextCmp]_vars

(* ------------------------------------------------------------------ *)
(* BasicIterator<ValueType>: the node pointer and which of the two      *)
(* instantiations the object is (Iterator, ConstIterator)               *)
(* ------------------------------------------------------------------ *)
Iterator(n) == [node_ |-> n, isConst |-> FALSE]
ConstIterator(n) == [node_ |-> n, isConst |-> TRUE]
MakeIter(n, c) == IF c THEN ConstIterator(n) ELSE Iterator(n)

(* operator==: the overload is chosen by the type of rhs *)
IterEqual(lhs, rhs) ==
    IF rhs.isConst THEN rhs.node_ = lhs.node_
    ELSE rhs.node_ = lhs.node_

(* an operator!= whose overload for a ConstIterator argument has the body *)
(* of operator==                                                          *)
IterNotEqual_ConstAsEqual(lhs, rhs) ==
    IF rhs.isConst THEN rhs.node_ = lhs.node_
    ELSE rhs.node_ # lhs.node_

(* operator!=: the overload is chosen by the type of rhs *)
IterNotEqual(lhs, rhs) ==
    IF rhs.isConst THEN rhs.node_ # lhs.node_
    ELSE rhs.node_ # lhs.node_

(* the positions of l a client can hold an iterator to *)
IterPositions(h, l) == Positions(h, l) \cup {end}

(* it1 == it2, it1 at p in list l, it2 at q in list m; seq keeps which of *)
(* the two is a ConstIterator                                             *)
OpIterEqual(l, m, p, q, cp, cq) ==
    /\ Running
    /\ l \in constructed /\ m \in constructed
    /\ p \in IterPositions(H, l) /\ q \in IterPositions(H, m)
    /\ op' = OpRec("it==", l, m, p, NoVal, <<cp, cq>>, FALSE,
                   BoolOutcome(IterEqual(MakeIter(p, cp), MakeIter(q, cq))), q)
    /\ UNCHANGED <<next, value, live, size_, constructed>>

(* it1 != it2 *)
OpIterNotEqual(l, m, p, q, cp, cq) ==
    /\ Running
    /\ l \in constructed /\ m \in constructed
    /\ p \in IterPositions(H, l) /\ q \in IterPositions(H, m)
    /\ op' = OpRec("it!=", l, m, p, NoVal, <<cp, cq>>, FALSE,
                   BoolOutcome(IterNotEqual(MakeIter(p, cp), MakeIter(q, cq))), q)
    /\ UNCHANGED <<next, value, live, size_, constructed>>

NextIter ==
    \/ \E l \in Lists, m \in Lists, cp \in BOOLEAN, cq \in BOOLEAN :
         \E p \in IterPositions(H, l), q \in IterPositions(H, m) : OpIterEqual(l, m, p, q, cp, cq)
    \/ \E l \in Lists, m \in Lists, cp \in BOOLEAN, cq \in BOOLEAN :
         \E p \in IterPositions(H, l), q \in IterPositions(H, m) : OpIterNotEqual(l, m, p, q, cp, cq)

(* iterators into two lists built from bounded initializer lists, compared *)
SpecIter == InitCmp /\ [][NextIter]_vars

(* ------------------------------------------------------------------ *)
(* Calls that break a precondition on the position                     *)
(* ------------------------------------------------------------------ *)
(* an InsertAfter with no check of the position *)
InsertAfterAssert_Off(pos) == TRUE

(* assert(pos.node_ != nullptr) of InsertAfter *)
InsertAfterAssert(pos) == pos # NULL

(* assert(node_ != nullptr) of operator* and operator-> *)
DerefAssert(p) == p # NULL

(* InsertAfter(end(), val): the assertion fails before anything else is   *)
(* done.  Were it to pass, operator new would hand out the block and the  *)
(* argument pos.node_->next_node of Node's constructor read through null  *)
InsertAfterEnd(l, val) ==
    /\ Running
    /\ l \in constructed
    /\ IF ~InsertAfterAssert(end)
       THEN /\ op' = OpRec("InsertAfter", l, l, end, val, <<>>, FALSE, "abort", NULL)
            /\ UNCHANGED <<next, value, live, size_>>
       ELSE /\ op' = OpRec("InsertAfter", l, l, end, val, <<>>, FALSE, "segv", NULL)
            /\ live' = IF FreshNode = NULL THEN live ELSE live \cup {FreshNode}
            /\ UNCHANGED <<next, value, size_>>
    /\ UNCHANGED constructed

(* EraseAfter(end()): the test of pos.node_ skips the removal, then       *)
(* return Iterator(pos.node_->next_node) reads through the null pointer:  *)
(* the process faults, or the read yields some pointer g                  *)
EraseAfterEnd(l) ==
    /\ Running
    /\ l \in constructed
    /\ \/ op' = OpRec("EraseAfter", l, l, end, NoVal, <<>>, FALSE, "segv", NULL)
       \/ \E g \in Addrs \cup {NULL} :
            op' = OpRec("EraseAfter", l, l, end, NoVal, <<>>, FALSE, "ub", g)
    /\ UNCHANGED <<next, value, live, size_, constructed>>

(* the Type object an iterator at p designates: the value of a node, the  *)
(* value-initialized member value of head_ for the sentinel               *)
Designated(h, p) == IF p \in Heap THEN h.value[p] ELSE NoVal

(* *it, the iterator it at position p of l *)
OpDeref(l, p) ==
    /\ Running
    /\ l \in constructed
    /\ p \in IterPositions(H, l)
    /\ op' = IF ~DerefAssert(p)
             THEN OpRec("*", l, l, p, NoVal, <<>>, FALSE, "abort", NULL)
             ELSE OpRec("*", l, l, p, Designated(H, p), <<>>, FALSE, "ok", p)
    /\ UNCHANGED <<next, value, live, size_, constructed>>

(* it->, the iterator it at position p of l *)
OpArrow(l, p) ==
    /\ Running
    /\ l \in constructed
    /\ p \in IterPositions(H, l)
    /\ op' = IF ~DerefAssert(p)
             THEN OpRec("->", l, l, p, NoVal, <<>>, FALSE, "abort", NULL)
             ELSE OpRec("->", l, l, p, Designated(H, p), <<>>, FALSE, "ok", p)
    /\ UNCHANGED <<next, value, live, size_, constructed>>

(* the client of Spec, which may also use the end() position where a node *)
(* or the sentinel is required                                            *)
NextPre ==
    \/ Next
    \/ \E l \in Lists, v \in Values : InsertAfterEnd(l, v)
    \/ \E l \in Lists : EraseAfterEnd(l)
    \/ \E l \in Lists : \E p \in IterPositions(H, l) : OpDeref(l, p)
    \/ \E l \in Lists : \E p \in IterPositions(H, l) : OpArrow(l, p)

SpecPre == Init /\ [][NextPre]_vars

(* ------------------------------------------------------------------ *)
(* Properties                                                          *)
(* ------------------------------------------------------------------ *)
IndexOf(sq, x) == IF \E i \in 1..Len(sq) : sq[i] = x
                  THEN CHOOSE i \in 1..Len(sq) : sq[i] = x ELSE 0
InsertAt(sq, k, x) == SubSeq(sq, 1, k) \o <<x>> \o SubSeq(sq, k + 1, Len(sq))
RemoveAt(sq, k) == SubSeq(sq, 1, k - 1) \o SubSeq(sq, k + 1, Len(sq))

Mem == <<next, value, live, size_>>

(* every list keeps its nodes, their values, their order and its size *)
ListsUntouched ==
    /\ \A m \in Lists :
         /\ NodesOf(H, m)' = NodesOf(H, m)
         /\ ValuesOf(H, m)' = ValuesOf(H, m)
         /\ size_'[m] = size_[m]
    /\ live' = live
    /\ constructed' = constructed

(* C1: in every reachable state GetSize() of each list equals the number  *)
(* of nodes reachable from its sentinel, and that chain is acyclic and    *)
(* ends in null                                                           *)
C1_SizeInvariant ==
    \A l \in constructed :
        /\ GetSize(H, l) = Len(NodesOf(H, l))
        /\ Acyclic(H, l)
        /\ IncrN(H, begin(H, l), Len(NodesOf(H, l))) = end

C1_Witness ==
    /\ op.name = "swap" /\ op.list # op.other
    /\ GetSize(H, "a") = 3 /\ GetSize(H, "b") = 1

(* C2: when the copy of the inserted value throws inside InsertAfter, the *)
(* list is as before the call, no node is linked in, and the call exits   *)
(* by the exception                                                       *)
C2_InsertAfterStrong ==
    [][(op'.name = "InsertAfter" /\ op'.failed)
         => (op'.outcome = "throw" /\ ListsUntouched /\ next' = next)]_vars

C2_Witness ==
    /\ op.name = "InsertAfter" /\ op.outcome = "throw"
    /\ GetSize(H, op.list) = 3 /\ live # Heap

(* C3: when an element copy throws during a = b, a keeps its sequence,    *)
(* size and nodes, b is unchanged, and the call exits by the exception    *)
C3_CopyAssignStrong ==
    [][(op'.name = "CopyAssign" /\ op'.failed)
         => (op'.outcome = "throw" /\ ListsUntouched)]_vars

C3_Witness ==
    /\ op.name = "CopyAssign" /\ op.outcome = "throw"
    /\ GetSize(H, op.list) = 1 /\ GetSize(H, op.other) = 2 /\ live # Heap

(* C4: operator== returns true exactly when both lists have the same      *)
(* length and equal elements at every position, and it never reads past   *)
(* the end of the shorter list                                            *)
C4_EqualElementwise ==
    op.name = "==" =>
        /\ op.outcome \in {"true", "false"}
        /\ (op.outcome = "true") <=> (ValuesOf(H, op.list) = ValuesOf(H, op.other))

(* C5: PopFront() on an empty list is a no-op: nothing is dereferenced or *)
(* freed, the list stays empty with size 0                                *)
C5_PopFrontEmptyNoOp ==
    [][\A l \in Lists :
         (op'.name = "PopFront" /\ op'.list = l /\ IsEmpty(H, l) /\ begin(H, l) = end)
           => (op'.outcome = "ok" /\ UNCHANGED Mem /\ GetSize(H, l)' = 0)]_vars

(* C6: a list constructed from a sequence S iterates to exactly S in      *)
(* order and has GetSize() = |S|; for the empty S, begin() = end()        *)
C6_InitListRoundTrip ==
    (op.name = "InitList" /\ op.outcome = "ok") =>
        /\ ValuesOf(H, op.list) = op.seq
        /\ GetSize(H, op.list) = Len(op.seq)
        /\ IncrN(H, begin(H, op.list), Len(op.seq)) = end
        /\ (op.seq = <<>> => begin(H, op.list) = end)

C6_Witness ==
    op.name = "InitList" /\ op.outcome = "ok" /\ op.seq = <<1, 2, 2>>

(* C7: a copy (constructor or assignment) of L has L's sequence and size  *)
(* and shares no node with L; a later mutation of one list leaves the     *)
(* sequence and size of the other unchanged                               *)
Mutators == {"PushFront", "PopFront", "InsertAfter", "EraseAfter", "Clear", "Write"}

C7_DeepCopy ==
    [][\A l \in Lists, o \in Lists :
         /\ (op'.name \in {"CopyCtor", "CopyAssign"} /\ op'.outcome = "ok"
               /\ op'.list = l /\ op'.other = o /\ l # o)
              => /\ ValuesOf(H, l)' = ValuesOf(H, o)
                 /\ ValuesOf(H, o)' = ValuesOf(H, o)
                 /\ GetSize(H, l)' = GetSize(H, o)
                 /\ GetSize(H, o)' = GetSize(H, o)
                 /\ NodeSet(H, l)' \cap NodeSet(H, o)' = {}
         /\ (op'.name \in Mutators /\ op'.list = l /\ o # l /\ o \in constructed)
              => /\ ValuesOf(H, o)' = ValuesOf(H, o)
                 /\ GetSize(H, o)' = GetSize(H, o)]_vars

C7_Witness ==
    /\ op.name \in {"CopyCtor", "CopyAssign"} /\ op.outcome = "ok" /\ op.list # op.other
    /\ ValuesOf(H, op.list) = <<1, 2>>

(* C8: no node is reachable from the sentinels of two lists, and no freed *)
(* node is reachable from any sentinel                                    *)
C8_ExclusiveOwnership ==
    /\ \A l \in constructed, m \in constructed :
         l # m => NodeSet(H, l) \cap NodeSet(H, m) = {}
    /\ \A l \in constructed : NodeSet(H, l) \subseteq live

C8_Witness ==
    /\ op.name = "EraseAfter" /\ op.ret # NULL
    /\ GetSize(H, "a") >= 1 /\ GetSize(H, "b") >= 1 /\ live # Heap

(* C9: a successful InsertAfter(pos, value) links exactly one new node    *)
(* holding value right after pos, returns an iterator to it, adds 1 to    *)
(* the size and keeps the other elements in their order                   *)
C9_InsertAfterEffect ==
    [][\A l \in Lists :
         (op'.name = "InsertAfter" /\ op'.outcome = "ok" /\ op'.list = l)
           => /\ op'.ret \notin live
              /\ live' = live \cup {op'.ret}
              /\ next'[op'.pos] = op'.ret
              /\ value'[op'.ret] = op'.val
              /\ GetSize(H, l)' = GetSize(H, l) + 1
              /\ NodesOf(H, l)' = InsertAt(NodesOf(H, l), IndexOf(NodesOf(H, l), op'.pos), op'.ret)
              /\ ValuesOf(H, l)' = InsertAt(ValuesOf(H, l), IndexOf(NodesOf(H, l), op'.pos), op'.val)]_vars

C9_Witness ==
    /\ op.name = "InsertAfter" /\ op.outcome = "ok"
    /\ op.pos # head_[op.list] /\ op.ret # NULL /\ next[op.ret] # NULL

(* C10: EraseAfter(pos) removes and frees exactly the node after pos when *)
(* there is one and returns an iterator to the node that now follows pos  *)
(* (end() if none); with no successor nothing changes and end() is        *)
(* returned                                                               *)
C10_EraseAfterEffect ==
    [][\A l \in Lists :
         (op'.name = "EraseAfter" /\ op'.list = l)
           => LET nodes == NodesOf(H, l)
                  k == IndexOf(nodes, op'.pos) + 1
              IN  /\ op'.outcome = "ok"
                  /\ op'.ret = next'[op'.pos]
                  /\ IF k <= Len(nodes)
                     THEN /\ NodesOf(H, l)' = RemoveAt(nodes, k)
                          /\ ValuesOf(H, l)' = RemoveAt(ValuesOf(H, l), k)
                          /\ GetSize(H, l)' = GetSize(H, l) - 1
                          /\ live' = live \ {nodes[k]}
                          /\ op'.ret = IF k < Len(nodes) THEN nodes[k + 1] ELSE end
                     ELSE /\ UNCHANGED Mem
                          /\ op'.ret = end]_vars

C10_Witness ==
    /\ op.name = "EraseAfter" /\ op.pos # head_[op.list]
    /\ op.ret # NULL /\ Cardinality(live) = 3

C10_WitnessNoSuccessor ==
    /\ op.name = "EraseAfter" /\ op.ret = NULL
    /\ GetSize(H, op.list) = 2 /\ Cardinality(live) = 2

(* C11: PopFront() on a non-empty list removes exactly the first element, *)
(* keeps the remaining elements in their order, takes 1 off the size and  *)
(* destroys that one node and no other                                    *)
C11_PopFrontEffect ==
    [][\A l \in Lists :
         (op'.name = "PopFront" /\ op'.list = l /\ ~IsEmpty(H, l))
           => /\ op'.outcome = "ok"
              /\ NodesOf(H, l)' = Tail(NodesOf(H, l))
              /\ ValuesOf(H, l)' = Tail(ValuesOf(H, l))
              /\ GetSize(H, l)' = GetSize(H, l) - 1
              /\ live' = live \ {Head(NodesOf(H, l))}
              /\ Cardinality(live') = Cardinality(live) - 1
              /\ \A n \in live' : value'[n] = value[n]]_vars

C11_Witness ==
    /\ op.name = "PopFront" /\ op.outcome = "ok"
    /\ ValuesOf(H, op.list) = <<2, 1>> /\ Cardinality(live) = 3

(* the lexicographic order on sequences: x is a strict prefix of y, or at *)
(* the first position where they differ x has the smaller element         *)
LexLess(x, y) ==
    \E k \in 1..Len(y) :
        /\ k - 1 <= Len(x)
        /\ \A i \in 1..(k - 1) : x[i] = y[i]
        /\ (k = Len(x) + 1 \/ x[k] < y[k])

(* C12: operator< is the lexicographic order under element-wise <: the    *)
(* first differing position decides, a strict prefix is less than the     *)
(* longer list, and lists of equal length and content compare neither     *)
(* less-than nor greater-than                                             *)
C12_LessLexicographic ==
    LET x == ValuesOf(H, op.list)
        y == ValuesOf(H, op.other)
    IN  /\ op.name = "<" => (op.outcome = BoolOutcome(LexLess(x, y)))
        /\ op.name = ">" => (op.outcome = BoolOutcome(LexLess(y, x)))
        /\ (op.name \in {"<", ">"} /\ x = y) => op.outcome = "false"
        /\ (op.name = "<" /\ Len(x) < Len(y) /\ x = SubSeq(y, 1, Len(x)))
              => op.outcome = "true"

C12_Witness ==
    /\ op.name = "<" /\ op.outcome = "true"
    /\ ValuesOf(H, op.list) = <<1, 2>> /\ ValuesOf(H, op.other) = <<2, 1>>

C12_WitnessPrefix ==
    /\ op.name = "<" /\ op.outcome = "true"
    /\ ValuesOf(H, op.list) = <<2>> /\ ValuesOf(H, op.other) = <<2, 1, 1>>

(* C13: when an element copy throws during copy-construction from L, L is *)
(* unchanged, every node allocated for the partial temporary is freed     *)
(* (none leaked, none linked into the new list) and the exception reaches *)
(* the caller                                                             *)
C13_CopyCtorThrowFrees ==
    [][\A l \in Lists :
         (op'.name = "CopyCtor" /\ op'.failed /\ op'.list = l)
           => /\ op'.outcome = "throw"
              /\ ListsUntouched
              /\ \A i \in 1..Len(op'.seq) : op'.seq[i] \notin live'
              /\ live' = live
              /\ next'[head_[l]] = NULL
              /\ next'[head_["ctemp"]] = NULL
              /\ l \notin constructed']_vars

C13_Witness ==
    /\ op.name = "CopyCtor" /\ op.outcome = "throw"
    /\ Len(op.seq) = 1 /\ GetSize(H, op.other) = 2 /\ Cardinality(live) = 2

(* C14: Clear() ends with no node reachable from the sentinel, size 0 and *)
(* begin() = end(), every node the list owned freed exactly once; at each *)
(* step of its loop the sentinel's link is null or a node not yet freed   *)
C14_ClearDetachesThenFrees ==
    [][\A l \in Lists :
         (op'.name = "Clear" /\ op'.list = l)
           => LET tr == ClearTrace(H, l, MaxNodes + 1)
                  nodes == NodesOf(H, l)
              IN  /\ op'.seq = nodes
                  /\ H' = SetSize(tr[Len(tr)], l, 0)
                  /\ NodesOf(H, l)' = <<>>
                  /\ GetSize(H, l)' = 0
                  /\ begin(H, l)' = end
                  /\ live' = live \ NodeSet(H, l)
                  /\ Len(tr) = 2 * Len(nodes) + 1
                  /\ \A k \in 1..Len(nodes) :
                        /\ nodes[k] \in tr[2 * k].live
                        /\ tr[2 * k + 1].live = tr[2 * k].live \ {nodes[k]}
                        /\ tr[2 * k].live = tr[2 * k - 1].live
                  /\ \A i \in 1..Len(tr) :
                        \/ tr[i].next[head_[l]] = NULL
                        \/ tr[i].next[head_[l]] \in tr[i].live]_vars

C14_Witness ==
    /\ op.name = "Clear" /\ Len(op.seq) = 3 /\ Cardinality(live) = 1
    /\ begin(H, op.list) = end

(* C15: a.swap(b) and swap(a, b) leave a with exactly the chain and size  *)
(* b had and b with those a had, allocate, copy and free no node; a       *)
(* second swap restores both lists                                        *)
C15_SwapExchanges ==
    [][\A l \in Lists, o \in Lists :
         (op'.name = "swap" /\ op'.list = l /\ op'.other = o)
           => /\ op'.outcome = "ok"
              /\ NodesOf(H, l)' = NodesOf(H, o)
              /\ NodesOf(H, o)' = NodesOf(H, l)
              /\ GetSize(H, l)' = GetSize(H, o)
              /\ GetSize(H, o)' = GetSize(H, l)
              /\ live' = live
              /\ value' = value
              /\ \A n \in Heap : next'[n] = next[n]
              /\ \A m \in ListObjs \ {l, o} : next'[head_[m]] = next[head_[m]] /\ size_'[m] = size_[m]
              /\ SwapH(H', l, o) = H
              /\ SwapH(H', o, l) = H]_vars

C15_Witness ==
    /\ op.name = "swap" /\ op.list = "a" /\ op.other = "b"
    /\ ValuesOf(H, "a") = <<2>> /\ ValuesOf(H, "b") = <<1, 2, 1>>

(* C16: in every reachable state of a list before_begin() advanced once   *)
(* equals begin(), and cbefore_begin() advanced once equals cbegin(); on  *)
(* an empty list that position is also end()                              *)
C16_BeforeBeginPrecedesBegin ==
    \A l \in constructed :
        /\ Incr(H, before_begin(l)) = begin(H, l)
        /\ Incr(H, cbefore_begin(l)) = cbegin(H, l)
        /\ Incr(H, before_begin(l)) = Incr(H, cbefore_begin(l))
        /\ IsEmpty(H, l) => (Incr(H, before_begin(l)) = end /\ Incr(H, cbefore_begin(l)) = cend)
        /\ ~IsEmpty(H, l) => Incr(H, before_begin(l)) = NodesOf(H, l)[1]

C16_Witness ==
    /\ op.name = "EraseAfter" /\ op.list = "a" /\ op.pos = before_begin("a")
    /\ IsEmpty(H, "a") /\ Incr(H, before_begin("a")) = end
    /\ GetSize(H, "b") = 2 /\ Incr(H, before_begin("b")) = NodesOf(H, "b")[1]
    /\ Cardinality(live) = 2

(* C17: operating after the sentinel is operating at the front:           *)
(* InsertAfter(before_begin(), v) gives the sequence and size PushFront(v) *)
(* gives and returns begin(); EraseAfter(before_begin()) gives the        *)
(* sequence and size PopFront() gives and returns begin()                 *)
C17_SentinelIsFront ==
    [][\A l \in Lists :
         /\ (op'.name = "InsertAfter" /\ op'.outcome = "ok" /\ op'.list = l
               /\ op'.pos = before_begin(l))
              => LET pushed == PushFrontH(H, l, FreshNode, op'.val, FALSE)
                 IN  /\ ~pushed.thrown
                     /\ ValuesOf(H, l)' = ValuesOf(pushed.h, l)
                     /\ ValuesOf(H, l)' = <<op'.val>> \o ValuesOf(H, l)
                     /\ GetSize(H, l)' = GetSize(pushed.h, l)
                     /\ op'.ret = begin(H, l)'
                     /\ value'[op'.ret] = op'.val
         /\ (op'.name = "EraseAfter" /\ op'.list = l /\ op'.pos = before_begin(l))
              => /\ ValuesOf(H, l)' = ValuesOf(PopFrontH(H, l), l)
                 /\ GetSize(H, l)' = GetSize(PopFrontH(H, l), l)
                 /\ op'.ret = begin(H, l)'
         /\ (op'.name = "PushFront" /\ op'.outcome = "ok" /\ op'.list = l)
              => LET inserted == InsertAfterH(H, l, before_begin(l), FreshNode, op'.val, FALSE)
                 IN  /\ ValuesOf(H, l)' = ValuesOf(inserted.h, l)
                     /\ GetSize(H, l)' = GetSize(inserted.h, l)
         /\ (op'.name = "PopFront" /\ op'.list = l)
              => /\ ValuesOf(H, l)' = ValuesOf(EraseAfterH(H, l, before_begin(l)).h, l)
                 /\ GetSize(H, l)' = GetSize(EraseAfterH(H, l, before_begin(l)).h, l)]_vars

C17_Witness ==
    /\ op.name = "InsertAfter" /\ op.outcome = "ok" /\ op.pos = before_begin(op.list)
    /\ op.ret = begin(H, op.list) /\ ValuesOf(H, op.list) = <<1, 2, 2>>

C17_WitnessErase ==
    /\ op.name = "EraseAfter" /\ op.pos = before_begin(op.list)
    /\ op.ret = begin(H, op.list) /\ ValuesOf(H, op.list) = <<2, 1>>
    /\ Cardinality(live) = 2

(* C18: PushFront(value) makes a new node holding value the first         *)
(* element, adds exactly 1 to the size and keeps the previous elements    *)
(* behind it in their order; when copying value throws the list is        *)
(* unchanged                                                              *)
C18_PushFrontEffect ==
    [][\A l \in Lists :
         (op'.name = "PushFront" /\ op'.list = l)
           => IF op'.failed
              THEN /\ op'.outcome = "throw"
                   /\ ListsUntouched
                   /\ UNCHANGED Mem
              ELSE /\ op'.outcome = "ok"
                   /\ op'.ret \notin live
                   /\ live' = live \cup {op'.ret}
                   /\ begin(H, l)' = op'.ret
                   /\ value'[op'.ret] = op'.val
                   /\ NodesOf(H, l)' = <<op'.ret>> \o NodesOf(H, l)
                   /\ ValuesOf(H, l)' = <<op'.val>> \o ValuesOf(H, l)
                   /\ GetSize(H, l)' = GetSize(H, l) + 1]_vars

C18_Witness ==
    /\ op.name = "PushFront" /\ op.outcome = "ok"
    /\ ValuesOf(H, op.list) = <<2, 1, 1>> /\ op.val = 2 /\ op.ret = begin(H, op.list)

C18_WitnessThrow ==
    /\ op.name = "PushFront" /\ op.outcome = "throw"
    /\ ValuesOf(H, op.list) = <<1, 2>> /\ Cardinality(live) = 2

(* C19: PopFront, EraseAfter, InsertAfter and PushFront change only the   *)
(* link of the position they act on: every node but the removed one stays *)
(* live with its value, so an iterator to it still refers to the same     *)
(* node and value; only the removed node is lost                          *)
LinkOps == {"PopFront", "EraseAfter", "InsertAfter", "PushFront"}

C19_OnlyPositionLinkChanges ==
    [][op'.name \in LinkOps
         => /\ Cardinality(live \ live') <= 1
            /\ \A n \in live \ live' :
                  /\ op'.name \in {"PopFront", "EraseAfter"}
                  /\ op'.pos # NULL
                  /\ n = next[op'.pos]
            /\ \A n \in live \cap live' :
                  /\ value'[n] = value[n]
                  /\ n # op'.pos => next'[n] = next[n]
            /\ \A m \in ListObjs :
                  head_[m] # op'.pos => next'[head_[m]] = next[head_[m]]
            /\ \A m \in Lists :
                  \A i \in 1..Len(NodesOf(H, m)) :
                      NodesOf(H, m)[i] \in live'
                        => \E j \in 1..Len(NodesOf(H, m)') :
                             /\ NodesOf(H, m)'[j] = NodesOf(H, m)[i]
                             /\ ValuesOf(H, m)'[j] = ValuesOf(H, m)[i]]_vars

C19_Witness ==
    /\ op.name = "EraseAfter" /\ op.pos \in Heap /\ op.ret # NULL
    /\ NodesOf(H, op.list) = <<op.pos, op.ret>>
    /\ value[op.pos] # value[op.ret] /\ Cardinality(live) = 2

(* C20: two iterators compare equal iff they refer to the same node (end() *)
(* iterators of different lists are equal, the sentinel position differs  *)
(* from every element position and from end()); the result is the same    *)
(* for every const/non-const combination and argument order, and != is    *)
(* the negation of ==                                                     *)
C20_IteratorEquality ==
    /\ op.name = "it==" => op.outcome = BoolOutcome(op.pos = op.ret)
    /\ op.name = "it!=" => op.outcome = BoolOutcome(op.pos # op.ret)
    /\ op.name \in {"it==", "it!="} =>
          \A c1 \in BOOLEAN, c2 \in BOOLEAN :
              /\ IterEqual(MakeIter(op.pos, c1), MakeIter(op.ret, c2)) = (op.pos = op.ret)
              /\ IterEqual(MakeIter(op.ret, c2), MakeIter(op.pos, c1)) = (op.pos = op.ret)
              /\ IterNotEqual(MakeIter(op.pos, c1), MakeIter(op.ret, c2))
                    = ~IterEqual(MakeIter(op.pos, c1), MakeIter(op.ret, c2))
              /\ IterNotEqual(MakeIter(op.ret, c2), MakeIter(op.pos, c1))
                    = ~IterEqual(MakeIter(op.pos, c1), MakeIter(op.ret, c2))
    /\ \A l \in Lists, m \in Lists :
          /\ IterEqual(Iterator(end), ConstIterator(cend))
          /\ ~IterEqual(Iterator(before_begin(l)), Iterator(end))
          /\ \A n \in NodeSet(H, m) :
                /\ ~IterEqual(Iterator(before_begin(l)), Iterator(n))
                /\ ~IterEqual(ConstIterator(n), ConstIterator(cbefore_begin(l)))
                /\ ~IterEqual(Iterator(n), Iterator(end))

C20_Witness ==
    /\ op.name = "it!=" /\ op.outcome = "false"
    /\ op.list = "a" /\ op.other = "b" /\ op.pos = end /\ op.ret = end
    /\ op.seq = <<FALSE, TRUE>>
    /\ GetSize(H, "a") = 2 /\ GetSize(H, "b") = 1

C20_WitnessSentinel ==
    /\ op.name = "it==" /\ op.outcome = "false"
    /\ op.pos = before_begin(op.list) /\ op.ret = begin(H, op.list) /\ op.ret # end
    /\ op.seq = <<TRUE, FALSE>>

(* C21: pre-increment moves an iterator to the successor of its node and  *)
(* leaves an iterator at end() at end(); from begin() of any reachable    *)
(* list the iterator equals end() after exactly GetSize() increments and  *)
(* not earlier                                                            *)
C21_IncrementReachesEnd ==
    /\ Incr(H, end) = end
    /\ PostIncr(H, end).it = end
    /\ \A l \in constructed :
          LET nodes == NodesOf(H, l)
          IN  /\ \A i \in 1..Len(nodes) :
                    /\ Incr(H, nodes[i]) = IF i < Len(nodes) THEN nodes[i + 1] ELSE end
                    /\ PostIncr(H, nodes[i]).it = Incr(H, nodes[i])
                    /\ PostIncr(H, nodes[i]).ret = nodes[i]
              /\ IncrN(H, begin(H, l), GetSize(H, l)) = end
              /\ IncrN(H, begin(H, l), GetSize(H, l) + 1) = end
              /\ \A k \in 0..(GetSize(H, l) - 1) : IncrN(H, begin(H, l), k) # end

C21_Witness ==
    /\ op.name = "InsertAfter" /\ op.outcome = "ok" /\ GetSize(H, op.list) = 3
    /\ IncrN(H, begin(H, op.list), 2) = op.ret
    /\ IncrN(H, begin(H, op.list), 3) = end

(* C22: PopFront, EraseAfter, Clear and swap never allocate a node and    *)
(* never copy an element value, so in every reachable state (the empty    *)
(* list and the exhausted heap included) they complete without the        *)
(* failure outcome                                                        *)
NoThrowOps == {"PopFront", "EraseAfter", "Clear", "swap"}

C22_NoThrowOps ==
    [][op'.name \in NoThrowOps
         => /\ op'.outcome = "ok"
            /\ ~op'.failed
            /\ live' \subseteq live
            /\ \A n \in live' : value'[n] = value[n]
            /\ constructed' = constructed]_vars

C22_Witness ==
    /\ op.name = "PopFront" /\ op.outcome = "ok"
    /\ Cardinality(live) = MaxNodes - 1 /\ GetSize(H, op.list) = 2
    /\ value[NodesOf(H, op.list)[1]] # value[NodesOf(H, op.list)[2]]

C22_WitnessEmpty ==
    /\ op.name = "PopFront" /\ op.outcome = "ok"
    /\ live = {} /\ IsEmpty(H, op.list)

(* C23: the size invariant also holds when InsertAfter or EraseAfter is   *)
(* called on a list with a position that is the sentinel or a live node   *)
(* of another list: afterwards GetSize() of both lists still equals the   *)
(* number of nodes reachable from their own sentinel                      *)
C23_SizeInvariantForeign ==
    (op.name \in {"InsertAfter", "EraseAfter"} /\ op.other # op.list)
        => /\ GetSize(H, op.list) = Len(NodesOf(H, op.list))
           /\ GetSize(H, op.other) = Len(NodesOf(H, op.other))

(* C24: no node is leaked: when an element copy throws part-way through   *)
(* the construction of a list from a sequence of values every node that   *)
(* constructor allocated is freed; in every reachable state each          *)
(* allocated node is reachable from the sentinel of a live list           *)
C24_NoLeak ==
    /\ live \subseteq UNION {NodeSet(H, l) : l \in constructed}
    /\ (op.name = "InitList" /\ op.outcome = "throw")
          => (op.list \notin constructed /\ NodeSet(H, op.list) = {})

(* C25: EraseAfter called with the end() position never dereferences a    *)
(* null node: it leaves the list and its size unchanged and returns end() *)
C25_EraseAfterEndSafe ==
    [][(op'.name = "EraseAfter" /\ op'.pos = end)
         => (op'.outcome = "ok" /\ op'.ret = end /\ UNCHANGED Mem)]_vars

(* C27: precondition violations on the end() position are trapped before *)
(* any state change: InsertAfter(end(), v) and operator* / operator-> on  *)
(* an end() iterator end in the assertion failure with no node allocated  *)
(* and the list unchanged; dereferencing the sentinel position is not     *)
(* trapped                                                                *)
C27_EndPositionTrapped ==
    [][/\ (op'.name = "InsertAfter" /\ op'.pos = end /\ ~op'.failed)
           => (op'.outcome = "abort" /\ UNCHANGED Mem /\ UNCHANGED constructed)
       /\ (op'.name \in {"*", "->"} /\ op'.pos = end)
           => (op'.outcome = "abort" /\ UNCHANGED Mem /\ UNCHANGED constructed)
       /\ (op'.name \in {"*", "->"} /\ op'.pos \in Sentinels)
           => (op'.outcome = "ok" /\ UNCHANGED Mem)
       /\ (op'.name \in {"*", "->"} /\ op'.pos \in Heap)
           => (op'.outcome = "ok" /\ op'.val = value[op'.pos] /\ UNCHANGED Mem)]_vars

C27_Witness ==
    /\ op.name = "InsertAfter" /\ op.pos = end /\ op.outcome = "abort"
    /\ GetSize(H, op.list) = 2 /\ Cardinality(live) = 2

C27_WitnessDerefEnd ==
    /\ op.name = "*" /\ op.pos = end /\ op.outcome = "abort"
    /\ GetSize(H, op.list) = 1

C27_WitnessSentinel ==
    /\ op.name = "->" /\ op.pos = before_begin(op.list) /\ op.outcome = "ok"
    /\ GetSize(H, op.list) = 1

(* C26: for any two lists a and b exactly one of a < b, a == b, b < a     *)
(* holds, and the derived operators agree with that: a != b iff not       *)
(* (a == b), a <= b iff (a < b or a == b), a > b iff b < a, a >= b iff    *)
(* (a > b or a == b)                                                      *)
ExactlyOne(p, q, r) == (p /\ ~q /\ ~r) \/ (~p /\ q /\ ~r) \/ (~p /\ ~q /\ r)

C26_Trichotomy ==
    LET lt == LessH(H, op.list, op.other)
        gt == LessH(H, op.other, op.list)
    IN  /\ op.name \in {"==", "!=", "<", "<=", ">", ">="} => op.outcome \in {"true", "false"}
        /\ op.name = "==" => ExactlyOne(lt, op.outcome = "true", gt)
        /\ op.name = "!=" => ExactlyOne(lt, op.outcome = "false", gt)
        /\ op.name = "<" => (op.outcome = BoolOutcome(lt) /\ ~(lt /\ gt))
        /\ op.name = "<=" => op.outcome = BoolOutcome(~gt)
        /\ op.name = ">" => op.outcome = BoolOutcome(gt)
        /\ op.name = ">=" => op.outcome = BoolOutcome(~lt)

(* C28: the self-assignment a = a leaves a unchanged: same nodes, same    *)
(* values, same size; no node is allocated, copied or freed, so iterators *)
(* into a stay valid and no copy failure can occur                        *)
C28_SelfAssignNoOp ==
    [][\A l \in Lists :
         (op'.name = "CopyAssign" /\ op'.list = l /\ op'.other = l)
           => /\ op'.outcome = "ok"
              /\ ~op'.failed
              /\ NodesOf(H, l)' = NodesOf(H, l)
              /\ ValuesOf(H, l)' = ValuesOf(H, l)
              /\ GetSize(H, l)' = GetSize(H, l)
              /\ UNCHANGED Mem
              /\ UNCHANGED constructed]_vars

C28_Witness ==
    /\ op.name = "CopyAssign" /\ op.list = op.other /\ op.outcome = "ok"
    /\ ValuesOf(H, op.list) = <<1, 2, 1>> /\ Cardinality(live) = MaxNodes
====
